---- MODULE Spec2Model ----
(***************************************************************************)
(* Model of package herots (src/herots.go): the Server value, its public   *)
(* operations NewServer, SetMessagesDst, Config, LoadKeyPair,              *)
(* AddClientCACert, Accept and Start, and the private log filter.          *)
(*                                                                         *)
(* Every call is one atomic action (the package has no locks and expects   *)
(* its callers to serialise calls).  The library calls the package makes   *)
(* (pem.Decode, x509.ParseCertificate, tls.X509KeyPair, tls.Listen,        *)
(* Listener.Accept) are modelled by what they do on abstract PEM data.     *)
(* A nil dereference is recorded as the result "panic" of the call; the    *)
(* caller may recover and go on calling.  Arguments are values of their    *)
(* declared types: the writers and *Options handed in are never nil.       *)
(***************************************************************************)
EXTENDS Integers, Sequences, FiniteSets

VARIABLES
    options,         \* h.options: the active Options record
    certs,           \* h.certs: Cert (tls.Certificate) and pool {IsSet, Pool}
    listener,        \* h.listener: 0 (nil) or an index into sockets
    logDestination,  \* h.logDestination
    pools,           \* heap of live *x509.CertPool objects: address -> set of certificates
    sockets,         \* listeners bound by tls.Listen and still open, in bind order
    last,            \* the most recent call: its name, its arguments and what it returned
    logged,          \* the h.log calls the most recent call made, in order
    written,         \* the lines the most recent call wrote to a sink, in order
    tried,           \* the tls.Listen and Listener.Accept calls the most recent call made
    inbound,         \* connections waiting in the accept queue of an open socket
    calls,           \* the Accept call each goroutine is in, when callers run concurrently
    returned         \* per goroutine, the connections its Accept calls have returned

\* what only concurrent Accept calls touch
conc == <<inbound, calls, returned>>

vars == <<options, certs, listener, logDestination, pools, sockets, last, logged, written,
          tried, inbound, calls, returned>>

----------------------------------------------------------------------------
(* Bounds and input sets *)

MaxListeners == 2
\* connections that arrive in all
MaxConns == 3

DefaultPort == 9000

Hosts == {"127.0.0.1", "10.0.0.1"}
Ports == {0, 8443}
LogLevels == 0..3
AuthTypes == {"RequireAnyClientCert", "NoClientCert"}
Writers == {"stdout", "w1"}
Peers == {"peerA", "peerB"}

\* goroutines that call Accept concurrently
Goroutines == {"g1", "g2"}
\* a goroutine that is in no Accept call
Idle == [pc |-> "idle", conn |-> 0, remote |-> "none", tried |-> <<>>]

\* Options.LogDestination may be left nil
NilWriter == "nil"

\* configuration records handed to Config: every field varies
OptionsIn == [Host : Hosts, Port : Ports, LogLevel : LogLevels,
              LogDestination : {NilWriter, "w1"}, TLSAuthType : AuthTypes]

\* records that vary the port, the log level and the log sink only
OptionsLog == {o \in OptionsIn : o.Host = "127.0.0.1" /\ o.TLSAuthType = "RequireAnyClientCert"}

\* records that vary the client-auth policy and, together, the host and the
\* port (127.0.0.1 with port 0, 10.0.0.1 with port 8443), log on
OptionsNet == {o \in OptionsIn : /\ o.LogLevel = 2 /\ o.LogDestination = NilWriter
                                 /\ (o.Host = "127.0.0.1") <=> (o.Port = 0)}

\* records that vary the port only, log off
OptionsPorts == {o \in OptionsLog : o.LogLevel = 0 /\ o.LogDestination = NilWriter}

\* records that switch the log on or off (port 0, to be replaced by the default)
OptionsFew == {o \in OptionsLog : o.Port = 0 /\ o.LogLevel \in {0, 2} /\ o.LogDestination = NilWriter}

\* DER contents of a PEM block: two certificates and bytes that are no certificate
X509Certs == {"c1", "c2"}
Ders == X509Certs \cup {"bad"}
Keys == {"k1", "k2"}
KeyOf(c) == IF c = "c1" THEN "k1" ELSE "k2"

\* a further certificate, of a client CA, whose key the caller does not hold
CACerts == {"ca"}

Blocks == [Type : {"CERTIFICATE", "PRIVATE KEY"}, Bytes : Ders]
\* PEM input: no block, one block, or a key block followed by a certificate block
PEMs == {<<>>} \cup {<<b>> : b \in Blocks}
        \cup {<<a, b>> : a \in {k \in Blocks : k.Type = "PRIVATE KEY"},
                          b \in {c \in Blocks : c.Type = "CERTIFICATE"}}

\* one CERTIFICATE block each: the certificates, the client CA, no certificate
PEMsCA == {<<>>} \cup {<<[Type |-> "CERTIFICATE", Bytes |-> d]>> : d \in Ders \cup CACerts}

\* the two certificates, each also usable as a client CA
PEMsShare == {<<[Type |-> "CERTIFICATE", Bytes |-> d]>> : d \in X509Certs}

\* a short list: no block, a certificate, bytes that are no certificate
PEMsFew == {<<>>, <<[Type |-> "CERTIFICATE", Bytes |-> "c1"]>>,
            <<[Type |-> "CERTIFICATE", Bytes |-> "bad"]>>}

----------------------------------------------------------------------------
(* Library functions *)

NilBlock == [Type |-> "nil", Bytes |-> "nil"]

\* pem.Decode: the first PEM block of the data, nil when there is none
pemDecode(data) == IF data = <<>> THEN NilBlock ELSE data[1]

\* x509.ParseCertificate: succeeds exactly on certificate DER
ParseCertificateOk(der) == der \in X509Certs \cup CACerts

IsCertBlock(b) == b.Type = "CERTIFICATE"

\* the DER of the CERTIFICATE blocks of the data, other blocks skipped
CertChain(data) ==
    LET cs == SelectSeq(data, IsCertBlock)
    IN  [i \in 1..Len(cs) |-> cs[i].Bytes]

NoCert == [Certificate |-> <<>>, PrivateKey |-> "none"]

\* tls.X509KeyPair: err is TRUE when there is no CERTIFICATE block, the leaf
\* does not parse or the key does not belong to the leaf
X509KeyPair(cert, key) ==
    LET chain == CertChain(cert)
    IN  IF chain = <<>> THEN [err |-> TRUE, c |-> NoCert]
        ELSE IF ~ParseCertificateOk(chain[1]) THEN [err |-> TRUE, c |-> NoCert]
        ELSE IF key # KeyOf(chain[1]) THEN [err |-> TRUE, c |-> NoCert]
        ELSE [err |-> FALSE, c |-> [Certificate |-> chain, PrivateKey |-> key]]

----------------------------------------------------------------------------
(* Heap of certificate pools *)

NilPool == 0

\* pools still referenced by the server (pool p) or by an open listener's config
LivePools(p, socks) == ({p} \cup {socks[i].ClientCAs : i \in DOMAIN socks}) \ {NilPool}

\* x509.NewCertPool: the address of a new object, none of the live ones
NewCertPool ==
    LET live == LivePools(certs.pool.Pool, sockets)
    IN  CHOOSE a \in 1..(Cardinality(live) + 1) :
            a \notin live /\ \A b \in 1..(Cardinality(live) + 1) : b \notin live => a <= b

\* the heap after the server's pool pointer became p with contents cs;
\* objects no longer referenced are collected
Heap(p, cs) ==
    [a \in LivePools(p, sockets) |-> IF a = p THEN cs ELSE pools[a]]

----------------------------------------------------------------------------
(* Logging *)

\* log without the early return at level 0
logNoOff(m, lvl) ==
    IF options.LogLevel <= lvl
    THEN <<[dst |-> logDestination, msg |-> m, lvl |-> lvl]>>
    ELSE <<>>

\* func (h *Server) log(m string, lvl int)
log(m, lvl) ==
    IF options.LogLevel = 0 THEN <<>>
    ELSE IF options.LogLevel <= lvl
         THEN <<[dst |-> logDestination, msg |-> m, lvl |-> lvl]>>
         ELSE <<>>

Call(m, lvl) == [msg |-> m, lvl |-> lvl]

\* one call of tls.Listen or of Listener.Accept: the listener it returned or
\* was made on (0: none) and whether it returned an error
Try(fn, l, err) == [fn |-> fn, listener |-> l, err |-> err]

Returns(op, args, result) == last' = [op |-> op, args |-> args, result |-> result]

----------------------------------------------------------------------------
(* Operations *)

Init ==
    /\ options = [Host |-> "127.0.0.1", Port |-> DefaultPort, LogLevel |-> 0,
                  LogDestination |-> NilWriter, TLSAuthType |-> "RequireAnyClientCert"]
    /\ certs = [Cert |-> NoCert, pool |-> [IsSet |-> FALSE, Pool |-> NilPool]]
    /\ listener = 0
    /\ logDestination = "stdout"
    /\ pools = [a \in {} |-> {}]
    /\ sockets = <<>>
    /\ last = [op |-> "NewServer", args |-> <<>>, result |-> "ok"]
    /\ logged = <<>>
    /\ written = <<>>
    /\ tried = <<>>
    /\ inbound = {}
    /\ calls = [g \in Goroutines |-> Idle]
    /\ returned = [g \in Goroutines |-> <<>>]

\* SetMessagesDst storing the writer in the options record instead
SetMessagesDstInOptions(dst) ==
    /\ options' = [options EXCEPT !.LogDestination = dst]
    /\ Returns("SetMessagesDst", <<dst>>, "ok")
    /\ tried' = <<>>
    /\ logged' = <<>>
    /\ written' = <<>>
    /\ UNCHANGED <<certs, listener, logDestination, pools, sockets>>

SetMessagesDst(dst) ==
    /\ logDestination' = dst
    /\ Returns("SetMessagesDst", <<dst>>, "ok")
    /\ tried' = <<>>
    /\ logged' = <<>>
    /\ written' = <<>>
    /\ UNCHANGED <<options, certs, listener, pools, sockets>>

\* Config reporting the zero port but keeping it
ConfigKeepsPort(o) ==
    /\ IF o.Port = 0
       THEN /\ logged' = <<Call(<<"port can't be '0'">>, 2),
                           Call(<<"set port by default (9000)">>, 2)>>
            /\ written' = log(<<"port can't be '0'">>, 2)
                          \o log(<<"set port by default (9000)">>, 2)
       ELSE /\ logged' = <<>>
            /\ written' = <<>>
    /\ options' = o
    /\ Returns("Config", <<o>>, "ok")
    /\ tried' = <<>>
    /\ UNCHANGED <<certs, listener, logDestination, pools, sockets>>

\* Config with a single log call for the zero port
ConfigLogsOnce(o) ==
    /\ IF o.Port = 0
       THEN /\ logged' = <<Call(<<"port can't be '0'">>, 2)>>
            /\ written' = log(<<"port can't be '0'">>, 2)
            /\ options' = [o EXCEPT !.Port = DefaultPort]
       ELSE /\ logged' = <<>>
            /\ written' = <<>>
            /\ options' = o
    /\ Returns("Config", <<o>>, "ok")
    /\ tried' = <<>>
    /\ UNCHANGED <<certs, listener, logDestination, pools, sockets>>

Config(o) ==
    /\ IF o.Port = 0
       THEN /\ logged' = <<Call(<<"port can't be '0'">>, 2),
                           Call(<<"set port by default (9000)">>, 2)>>
            /\ written' = log(<<"port can't be '0'">>, 2)
                          \o log(<<"set port by default (9000)">>, 2)
            /\ options' = [o EXCEPT !.Port = DefaultPort]
       ELSE /\ logged' = <<>>
            /\ written' = <<>>
            /\ options' = o
    /\ Returns("Config", <<o>>, "ok")
    /\ tried' = <<>>
    /\ UNCHANGED <<certs, listener, logDestination, pools, sockets>>

\* LoadKeyPair creating the pool only when there is none yet
LoadKeyPairKeepsPool(cert, key) ==
    LET p    == IF certs.pool.Pool = NilPool THEN NewCertPool ELSE certs.pool.Pool
        old  == IF certs.pool.Pool = NilPool THEN {} ELSE pools[certs.pool.Pool]
        kp   == X509KeyPair(cert, key)
        blk  == pemDecode(cert)
    IN  IF kp.err
        THEN /\ certs' = [certs EXCEPT !.pool.Pool = p]
             /\ pools' = Heap(p, old)
             /\ Returns("LoadKeyPair", <<cert, key>>, "KeyPairLoadError")
             /\ tried' = <<>>
             /\ logged' = <<>>
             /\ written' = <<>>
             /\ UNCHANGED <<options, listener, logDestination, sockets>>
        ELSE IF ~ParseCertificateOk(blk.Bytes)
        THEN /\ certs' = [certs EXCEPT !.Cert = kp.c, !.pool.Pool = p]
             /\ pools' = Heap(p, old)
             /\ Returns("LoadKeyPair", <<cert, key>>, "KeyPairLoadError")
             /\ tried' = <<>>
             /\ logged' = <<>>
             /\ written' = <<>>
             /\ UNCHANGED <<options, listener, logDestination, sockets>>
        ELSE /\ certs' = [Cert |-> kp.c, pool |-> [IsSet |-> TRUE, Pool |-> p]]
             /\ pools' = Heap(p, old \cup {blk.Bytes})
             /\ Returns("LoadKeyPair", <<cert, key>>, "ok")
             /\ tried' = <<>>
             /\ logged' = <<Call(<<"load key pair ok">>, 2)>>
             /\ written' = log(<<"load key pair ok">>, 2)
             /\ UNCHANGED <<options, listener, logDestination, sockets>>

\* LoadKeyPair assigning the result of tls.X509KeyPair before looking at err
LoadKeyPairClearsOnError(cert, key) ==
    LET p   == NewCertPool
        kp  == X509KeyPair(cert, key)
        blk == pemDecode(cert)
    IN  IF kp.err
        THEN /\ certs' = [certs EXCEPT !.Cert = kp.c, !.pool.Pool = p]
             /\ pools' = Heap(p, {})
             /\ Returns("LoadKeyPair", <<cert, key>>, "KeyPairLoadError")
             /\ tried' = <<>>
             /\ logged' = <<>>
             /\ written' = <<>>
             /\ UNCHANGED <<options, listener, logDestination, sockets>>
        ELSE IF blk = NilBlock
        THEN /\ certs' = [certs EXCEPT !.Cert = kp.c, !.pool.Pool = p]
             /\ pools' = Heap(p, {})
             /\ Returns("LoadKeyPair", <<cert, key>>, "panic")
             /\ tried' = <<>>
             /\ logged' = <<>>
             /\ written' = <<>>
             /\ UNCHANGED <<options, listener, logDestination, sockets>>
        ELSE IF ~ParseCertificateOk(blk.Bytes)
        THEN /\ certs' = [certs EXCEPT !.Cert = kp.c, !.pool.Pool = p]
             /\ pools' = Heap(p, {})
             /\ Returns("LoadKeyPair", <<cert, key>>, "KeyPairLoadError")
             /\ tried' = <<>>
             /\ logged' = <<>>
             /\ written' = <<>>
             /\ UNCHANGED <<options, listener, logDestination, sockets>>
        ELSE /\ certs' = [Cert |-> kp.c, pool |-> [IsSet |-> TRUE, Pool |-> p]]
             /\ pools' = Heap(p, {blk.Bytes})
             /\ Returns("LoadKeyPair", <<cert, key>>, "ok")
             /\ tried' = <<>>
             /\ logged' = <<Call(<<"load key pair ok">>, 2)>>
             /\ written' = log(<<"load key pair ok">>, 2)
             /\ UNCHANGED <<options, listener, logDestination, sockets>>

LoadKeyPair(cert, key) ==
    LET p   == NewCertPool
        kp  == X509KeyPair(cert, key)
        blk == pemDecode(cert)
    IN  IF kp.err
        THEN \* line 141: the pool pointer is already replaced
             /\ certs' = [certs EXCEPT !.pool.Pool = p]
             /\ pools' = Heap(p, {})
             /\ Returns("LoadKeyPair", <<cert, key>>, "KeyPairLoadError")
             /\ tried' = <<>>
             /\ logged' = <<>>
             /\ written' = <<>>
             /\ UNCHANGED <<options, listener, logDestination, sockets>>
        ELSE IF blk = NilBlock
        THEN \* line 147: pemData.Bytes on a nil block
             /\ certs' = [certs EXCEPT !.Cert = kp.c, !.pool.Pool = p]
             /\ pools' = Heap(p, {})
             /\ Returns("LoadKeyPair", <<cert, key>>, "panic")
             /\ tried' = <<>>
             /\ logged' = <<>>
             /\ written' = <<>>
             /\ UNCHANGED <<options, listener, logDestination, sockets>>
        ELSE IF ~ParseCertificateOk(blk.Bytes)
        THEN \* line 149: the key pair is already stored
             /\ certs' = [certs EXCEPT !.Cert = kp.c, !.pool.Pool = p]
             /\ pools' = Heap(p, {})
             /\ Returns("LoadKeyPair", <<cert, key>>, "KeyPairLoadError")
             /\ tried' = <<>>
             /\ logged' = <<>>
             /\ written' = <<>>
             /\ UNCHANGED <<options, listener, logDestination, sockets>>
        ELSE /\ certs' = [Cert |-> kp.c, pool |-> [IsSet |-> TRUE, Pool |-> p]]
             /\ pools' = Heap(p, {blk.Bytes})
             /\ Returns("LoadKeyPair", <<cert, key>>, "ok")
             /\ tried' = <<>>
             /\ logged' = <<Call(<<"load key pair ok">>, 2)>>
             /\ written' = log(<<"load key pair ok">>, 2)
             /\ UNCHANGED <<options, listener, logDestination, sockets>>

\* AddClientCACert putting the certificate into a pool of its own
AddClientCACertReplaces(cert) ==
    LET pemData == pemDecode(cert)
    IN  IF pemData = NilBlock \/ certs.pool.Pool = NilPool
        THEN /\ Returns("AddClientCACert", <<cert>>, "panic")
             /\ tried' = <<>>
             /\ logged' = <<>>
             /\ written' = <<>>
             /\ UNCHANGED <<options, certs, listener, logDestination, pools, sockets>>
        ELSE IF ~ParseCertificateOk(pemData.Bytes)
        THEN /\ Returns("AddClientCACert", <<cert>>, "ClientCACertError")
             /\ tried' = <<>>
             /\ logged' = <<>>
             /\ written' = <<>>
             /\ UNCHANGED <<options, certs, listener, logDestination, pools, sockets>>
        ELSE /\ pools' = [pools EXCEPT ![certs.pool.Pool] = {pemData.Bytes}]
             /\ Returns("AddClientCACert", <<cert>>, "ok")
             /\ tried' = <<>>
             /\ logged' = <<Call(<<"load client CA cert ok">>, 2)>>
             /\ written' = log(<<"load client CA cert ok">>, 2)
             /\ UNCHANGED <<options, certs, listener, logDestination, sockets>>

AddClientCACert(cert) ==
    LET pemData == pemDecode(cert)
    IN  IF pemData = NilBlock
        THEN \* line 167: pemData.Bytes on a nil block
             /\ Returns("AddClientCACert", <<cert>>, "panic")
             /\ tried' = <<>>
             /\ logged' = <<>>
             /\ written' = <<>>
             /\ UNCHANGED <<options, certs, listener, logDestination, pools, sockets>>
        ELSE IF ~ParseCertificateOk(pemData.Bytes)
        THEN /\ Returns("AddClientCACert", <<cert>>, "ClientCACertError")
             /\ tried' = <<>>
             /\ logged' = <<>>
             /\ written' = <<>>
             /\ UNCHANGED <<options, certs, listener, logDestination, pools, sockets>>
        ELSE IF certs.pool.Pool = NilPool
        THEN \* line 171: AddCert on a nil *x509.CertPool
             /\ Returns("AddClientCACert", <<cert>>, "panic")
             /\ tried' = <<>>
             /\ logged' = <<>>
             /\ written' = <<>>
             /\ UNCHANGED <<options, certs, listener, logDestination, pools, sockets>>
        ELSE /\ pools' = [pools EXCEPT ![certs.pool.Pool] = @ \cup {pemData.Bytes}]
             /\ Returns("AddClientCACert", <<cert>>, "ok")
             /\ tried' = <<>>
             /\ logged' = <<Call(<<"load client CA cert ok">>, 2)>>
             /\ written' = log(<<"load client CA cert ok">>, 2)
             /\ UNCHANGED <<options, certs, listener, logDestination, sockets>>

\* what h.listener.Accept() may return: an error, or a connection from a peer
AcceptOutcomes == {[err |-> TRUE, remote |-> "none"]}
                  \cup {[err |-> FALSE, remote |-> r] : r \in Peers}

Accept(out) ==
    IF listener = 0
    THEN \* line 182: method call on a nil net.Listener
         /\ Returns("Accept", <<>>, "panic")
         /\ tried' = <<>>
         /\ logged' = <<>>
         /\ written' = <<>>
         /\ UNCHANGED <<options, certs, listener, logDestination, pools, sockets>>
    ELSE IF out.err
    THEN /\ Returns("Accept", <<>>, "AcceptError")
         /\ tried' = <<Try("Accept", listener, TRUE)>>
         /\ logged' = <<Call(<<"accept conn error: ", "closed">>, 3)>>
         /\ written' = log(<<"accept conn error: ", "closed">>, 3)
         /\ UNCHANGED <<options, certs, listener, logDestination, pools, sockets>>
    ELSE /\ Returns("Accept", <<>>, "ok")
         /\ tried' = <<Try("Accept", listener, FALSE)>>
         /\ logged' = <<Call(<<"accepted conn from ", out.remote>>, 2)>>
         /\ written' = log(<<"accepted conn from ", out.remote>>, 2)
         /\ UNCHANGED <<options, certs, listener, logDestination, pools, sockets>>

----------------------------------------------------------------------------
(* Accept called from several goroutines: the call is split at the blocking *)
(* h.listener.Accept() of line 182, which takes one connection out of the   *)
(* listener's accept queue; lines 183-188 run when it has returned          *)

\* the connections that have arrived so far, wherever they are now
ConnIds ==
    {c.id : c \in inbound}
    \cup ({calls[g].conn : g \in Goroutines} \ {0})
    \cup UNION {{returned[g][i] : i \in DOMAIN returned[g]} : g \in Goroutines}

\* a peer connects to an open socket (the network's step, not a call)
Connect(sock, remote) ==
    /\ Cardinality(ConnIds) < MaxConns
    /\ inbound' = inbound \cup {[id |-> Cardinality(ConnIds) + 1, sock |-> sock,
                                 remote |-> remote]}
    /\ UNCHANGED <<options, certs, listener, logDestination, pools, sockets,
                   last, logged, written, tried, calls, returned>>

\* the connections waiting on the stored listener
Waiting == {c \in inbound : c.sock = listener}

\* line 182; fail: h.listener.Accept() returns an error
AcceptEnter(g, fail) ==
    /\ calls[g] = Idle
    /\ IF listener = 0
       THEN \* method call on a nil net.Listener
            /\ Returns("Accept", <<>>, "panic")
            /\ tried' = <<>>
            /\ logged' = <<>>
            /\ written' = <<>>
            /\ UNCHANGED <<inbound, calls>>
       ELSE IF fail
       THEN /\ calls' = [calls EXCEPT ![g] = [pc |-> "failed", conn |-> 0, remote |-> "none",
                                              tried |-> <<Try("Accept", listener, TRUE)>>]]
            /\ UNCHANGED <<inbound, last, tried, logged, written>>
       ELSE \* blocks until a connection waits; the queue hands out the oldest
            /\ Waiting # {}
            /\ LET c == CHOOSE w \in Waiting : \A v \in Waiting : w.id <= v.id
               IN  /\ inbound' = inbound \ {c}
                   /\ calls' = [calls EXCEPT ![g] =
                                   [pc |-> "accepted", conn |-> c.id, remote |-> c.remote,
                                    tried |-> <<Try("Accept", listener, FALSE)>>]]
            /\ UNCHANGED <<last, tried, logged, written>>
    /\ UNCHANGED <<options, certs, listener, logDestination, pools, sockets, returned>>

\* lines 183-188 with the connection kept in a place all goroutines share:
\* the call returns the connection of any call that has accepted one
AcceptLeaveShared(g) ==
    /\ calls[g].pc = "accepted"
    /\ \E h \in Goroutines :
          /\ calls[h].pc = "accepted"
          /\ returned' = [returned EXCEPT ![g] = Append(@, calls[h].conn)]
    /\ Returns("Accept", <<>>, "ok")
    /\ tried' = calls[g].tried
    /\ logged' = <<Call(<<"accepted conn from ", calls[g].remote>>, 2)>>
    /\ written' = log(<<"accepted conn from ", calls[g].remote>>, 2)
    /\ calls' = [calls EXCEPT ![g] = Idle]
    /\ UNCHANGED <<options, certs, listener, logDestination, pools, sockets, inbound>>

\* lines 183-188 with one more h.listener.Accept() after an error
AcceptLeaveRetries(g) ==
    /\ calls[g].pc \in {"accepted", "failed"}
    /\ IF calls[g].pc = "failed" /\ Waiting = {}
       THEN /\ Returns("Accept", <<>>, "AcceptError")
            /\ tried' = calls[g].tried \o <<Try("Accept", listener, TRUE)>>
            /\ logged' = <<Call(<<"accept conn error: ", "closed">>, 3)>>
            /\ written' = log(<<"accept conn error: ", "closed">>, 3)
            /\ UNCHANGED <<returned, inbound>>
       ELSE IF calls[g].pc = "failed"
       THEN LET c == CHOOSE w \in Waiting : \A v \in Waiting : w.id <= v.id
            IN  /\ Returns("Accept", <<>>, "ok")
                /\ tried' = calls[g].tried \o <<Try("Accept", listener, FALSE)>>
                /\ logged' = <<Call(<<"accepted conn from ", c.remote>>, 2)>>
                /\ written' = log(<<"accepted conn from ", c.remote>>, 2)
                /\ returned' = [returned EXCEPT ![g] = Append(@, c.id)]
                /\ inbound' = inbound \ {c}
       ELSE /\ Returns("Accept", <<>>, "ok")
            /\ tried' = calls[g].tried
            /\ logged' = <<Call(<<"accepted conn from ", calls[g].remote>>, 2)>>
            /\ written' = log(<<"accepted conn from ", calls[g].remote>>, 2)
            /\ returned' = [returned EXCEPT ![g] = Append(@, calls[g].conn)]
            /\ UNCHANGED inbound
    /\ calls' = [calls EXCEPT ![g] = Idle]
    /\ UNCHANGED <<options, certs, listener, logDestination, pools, sockets>>

\* lines 183-188: log and return
AcceptLeave(g) ==
    /\ calls[g].pc \in {"accepted", "failed"}
    /\ IF calls[g].pc = "failed"
       THEN /\ Returns("Accept", <<>>, "AcceptError")
            /\ logged' = <<Call(<<"accept conn error: ", "closed">>, 3)>>
            /\ written' = log(<<"accept conn error: ", "closed">>, 3)
            /\ UNCHANGED returned
       ELSE /\ Returns("Accept", <<>>, "ok")
            /\ logged' = <<Call(<<"accepted conn from ", calls[g].remote>>, 2)>>
            /\ written' = log(<<"accepted conn from ", calls[g].remote>>, 2)
            /\ returned' = [returned EXCEPT ![g] = Append(@, calls[g].conn)]
    /\ tried' = calls[g].tried
    /\ calls' = [calls EXCEPT ![g] = Idle]
    /\ UNCHANGED <<options, certs, listener, logDestination, pools, sockets, inbound>>

\* tls.Listen can bind the service only while no open listener holds it
CanBind(service) ==
    /\ Len(sockets) < MaxListeners
    /\ \A i \in DOMAIN sockets : sockets[i].service # service

\* Start without the check that a key pair is loaded
StartNoCheck(bound) ==
    LET service == <<options.Host, options.Port>>
    IN  /\ bound => CanBind(service)
        /\ IF ~bound
           THEN /\ Returns("Start", <<>>, "ListenError")
                /\ tried' = <<Try("Listen", 0, TRUE)>>
                /\ logged' = <<>>
                /\ written' = <<>>
                /\ UNCHANGED <<options, certs, listener, logDestination, pools, sockets>>
           ELSE /\ sockets' = Append(sockets,
                       [service |-> service, ClientAuth |-> options.TLSAuthType,
                        Certificates |-> certs.Cert,
                        ClientCAs |-> certs.pool.Pool])
                /\ listener' = Len(sockets) + 1
                /\ Returns("Start", <<>>, "ok")
                /\ tried' = <<Try("Listen", Len(sockets) + 1, FALSE)>>
                /\ logged' = <<Call(<<"listening on ", options.Host, options.Port>>, 2)>>
                /\ written' = log(<<"listening on ", options.Host, options.Port>>, 2)
                /\ UNCHANGED <<options, certs, logDestination, pools>>

\* Start listening on the default port whatever the configuration says
StartDefaultPort(bound) ==
    IF Len(certs.Cert.Certificate) = 0
    THEN /\ Returns("Start", <<>>, "NoCredentialsError")
         /\ tried' = <<>>
         /\ logged' = <<>>
         /\ written' = <<>>
         /\ UNCHANGED <<options, certs, listener, logDestination, pools, sockets>>
    ELSE LET service == <<options.Host, DefaultPort>>
         IN  /\ bound => CanBind(service)
             /\ IF ~bound
                THEN /\ Returns("Start", <<>>, "ListenError")
                     /\ tried' = <<Try("Listen", 0, TRUE)>>
                     /\ logged' = <<>>
                     /\ written' = <<>>
                     /\ UNCHANGED <<options, certs, listener, logDestination, pools, sockets>>
                ELSE /\ sockets' = Append(sockets,
                            [service |-> service, ClientAuth |-> options.TLSAuthType,
                             Certificates |-> certs.Cert,
                             ClientCAs |-> certs.pool.Pool])
                     /\ listener' = Len(sockets) + 1
                     /\ Returns("Start", <<>>, "ok")
                     /\ tried' = <<Try("Listen", Len(sockets) + 1, FALSE)>>
                     /\ logged' = <<Call(<<"listening on ", options.Host, DefaultPort>>, 2)>>
                     /\ written' = log(<<"listening on ", options.Host, DefaultPort>>, 2)
                     /\ UNCHANGED <<options, certs, logDestination, pools>>

\* Start storing the new listener only when none is stored yet
StartKeepsFirst(bound) ==
    IF Len(certs.Cert.Certificate) = 0
    THEN /\ Returns("Start", <<>>, "NoCredentialsError")
         /\ tried' = <<>>
         /\ logged' = <<>>
         /\ written' = <<>>
         /\ UNCHANGED <<options, certs, listener, logDestination, pools, sockets>>
    ELSE LET service == <<options.Host, options.Port>>
         IN  /\ bound => CanBind(service)
             /\ IF ~bound
                THEN /\ Returns("Start", <<>>, "ListenError")
                     /\ tried' = <<Try("Listen", 0, TRUE)>>
                     /\ logged' = <<>>
                     /\ written' = <<>>
                     /\ UNCHANGED <<options, certs, listener, logDestination, pools, sockets>>
                ELSE /\ sockets' = Append(sockets,
                            [service |-> service, ClientAuth |-> options.TLSAuthType,
                             Certificates |-> certs.Cert,
                             ClientCAs |-> certs.pool.Pool])
                     /\ listener' = IF listener = 0 THEN Len(sockets) + 1 ELSE listener
                     /\ Returns("Start", <<>>, "ok")
                     /\ tried' = <<Try("Listen", Len(sockets) + 1, FALSE)>>
                     /\ logged' = <<Call(<<"listening on ", options.Host, options.Port>>, 2)>>
                     /\ written' = log(<<"listening on ", options.Host, options.Port>>, 2)
                     /\ UNCHANGED <<options, certs, logDestination, pools>>

\* Start giving the listener a copy of the pool
StartCopiesPool(bound) ==
    IF Len(certs.Cert.Certificate) = 0
    THEN /\ Returns("Start", <<>>, "NoCredentialsError")
         /\ tried' = <<>>
         /\ logged' = <<>>
         /\ written' = <<>>
         /\ UNCHANGED <<options, certs, listener, logDestination, pools, sockets>>
    ELSE LET service == <<options.Host, options.Port>>
             copy    == NewCertPool
         IN  /\ bound => CanBind(service)
             /\ IF ~bound
                THEN /\ Returns("Start", <<>>, "ListenError")
                     /\ tried' = <<Try("Listen", 0, TRUE)>>
                     /\ logged' = <<>>
                     /\ written' = <<>>
                     /\ UNCHANGED <<options, certs, listener, logDestination, pools, sockets>>
                ELSE /\ sockets' = Append(sockets,
                            [service |-> service, ClientAuth |-> options.TLSAuthType,
                             Certificates |-> certs.Cert,
                             ClientCAs |-> copy])
                     /\ pools' = [a \in DOMAIN pools \cup {copy} |->
                                     IF a = copy THEN pools[certs.pool.Pool] ELSE pools[a]]
                     /\ listener' = Len(sockets) + 1
                     /\ Returns("Start", <<>>, "ok")
                     /\ tried' = <<Try("Listen", Len(sockets) + 1, FALSE)>>
                     /\ logged' = <<Call(<<"listening on ", options.Host, options.Port>>, 2)>>
                     /\ written' = log(<<"listening on ", options.Host, options.Port>>, 2)
                     /\ UNCHANGED <<options, certs, logDestination>>

\* bound: whether tls.Listen succeeds
Start(bound) ==
    IF Len(certs.Cert.Certificate) = 0
    THEN /\ Returns("Start", <<>>, "NoCredentialsError")
         /\ tried' = <<>>
         /\ logged' = <<>>
         /\ written' = <<>>
         /\ UNCHANGED <<options, certs, listener, logDestination, pools, sockets>>
    ELSE LET config  == [ClientAuth   |-> options.TLSAuthType,
                         Certificates |-> certs.Cert,
                         ClientCAs    |-> certs.pool.Pool]
             service == <<options.Host, options.Port>>
         IN  /\ bound => CanBind(service)
             /\ IF ~bound
                THEN /\ Returns("Start", <<>>, "ListenError")
                     /\ tried' = <<Try("Listen", 0, TRUE)>>
                     /\ logged' = <<>>
                     /\ written' = <<>>
                     /\ UNCHANGED <<options, certs, listener, logDestination, pools, sockets>>
                ELSE /\ sockets' = Append(sockets,
                            [service |-> service, ClientAuth |-> config.ClientAuth,
                             Certificates |-> config.Certificates,
                             ClientCAs |-> config.ClientCAs])
                     /\ listener' = Len(sockets) + 1
                     /\ Returns("Start", <<>>, "ok")
                     /\ tried' = <<Try("Listen", Len(sockets) + 1, FALSE)>>
                     /\ logged' = <<Call(<<"listening on ", options.Host, options.Port>>, 2)>>
                     /\ written' = log(<<"listening on ", options.Host, options.Port>>, 2)
                     /\ UNCHANGED <<options, certs, logDestination, pools>>

\* every operation but Accept, with its inputs drawn from the given sets
CallsOn(OptIn, PemIn) ==
    \/ \E dst \in Writers : SetMessagesDst(dst)
    \/ \E o \in OptIn : Config(o)
    \/ \E cert \in PemIn, key \in Keys : LoadKeyPair(cert, key)
    \/ \E cert \in PemIn : AddClientCACert(cert)
    \/ \E bound \in BOOLEAN : Start(bound)

\* one caller: every call, Accept included, runs to completion
NextOn(OptIn, PemIn) ==
    /\ \/ CallsOn(OptIn, PemIn)
       \/ \E out \in AcceptOutcomes : Accept(out)
    /\ UNCHANGED conc

\* all PEM inputs, few configurations
Next == NextOn(OptionsFew, PEMs)

Spec == Init /\ [][Next]_vars

\* all log levels, sinks and ports, few PEM inputs
NextLog == NextOn(OptionsLog, PEMsFew)

SpecLog == Init /\ [][NextLog]_vars

\* two services, both client-auth policies, few PEM inputs
NextNet == NextOn(OptionsNet, PEMsFew)

SpecNet == Init /\ [][NextNet]_vars

\* Accept from several goroutines while connections arrive; the other calls
\* are made while no Accept call is running (the callers serialise them)
NextAccept ==
    \/ /\ \A g \in Goroutines : calls[g] = Idle
       /\ CallsOn(OptionsFew, PEMsFew)
       /\ UNCHANGED conc
    \/ \E sock \in DOMAIN sockets, remote \in Peers : Connect(sock, remote)
    \/ \E g \in Goroutines, fail \in BOOLEAN : AcceptEnter(g, fail)
    \/ \E g \in Goroutines : AcceptLeave(g)

SpecAccept == Init /\ [][NextAccept]_vars

\* two certificates and two services
NextShare == NextOn(OptionsPorts, PEMsShare)

SpecShare == Init /\ [][NextShare]_vars

\* three certificates for the pool, one block per input, few configurations
NextPool == NextOn(OptionsFew, PEMsCA)

SpecPool == Init /\ [][NextPool]_vars

----------------------------------------------------------------------------
(* Properties *)

ErrorKinds == {"KeyPairLoadError", "ClientCACertError", "NoCredentialsError",
               "ListenError", "AcceptError"}

\* C1: while no LoadKeyPair call has returned success (certs.pool.IsSet, set
\* only on line 152, is still false), a Start call returns NoCredentialsError
\* and binds nothing: no listener is stored and no socket is open.
C1_StartWithoutLoadFails ==
    (last.op = "Start" /\ ~certs.pool.IsSet)
        => (last.result = "NoCredentialsError" /\ listener = 0 /\ sockets = <<>>)

\* C2: a call that returns an error leaves the configuration, the credential,
\* the pool pointer and every pool's entries, the stored listener and the open
\* sockets as they were before the call.
C2_ErrorsLeaveStateUnchanged ==
    [][last'.result \in ErrorKinds
         => UNCHANGED <<options, certs, pools, listener, sockets>>]_vars

\* C3: every call either succeeds or returns one of the five error kinds;
\* no call panics.
C3_NoCallPanics == last.result \in {"ok"} \cup ErrorKinds

\* C4: a log call of severity lvl writes its line if and only if the active
\* logLevel is non-zero and lvl <= logLevel (so what level 1 writes, level 2
\* writes too, and what level 2 writes, level 3 writes too).  Every h.log call
\* of a step is filtered by the configuration active before the step.
C4_WrittenIffWithinLevel ==
    [][\A i \in DOMAIN logged' :
          (\E j \in DOMAIN written' :
               written'[j].msg = logged'[i].msg /\ written'[j].lvl = logged'[i].lvl)
          <=> (options.LogLevel # 0 /\ logged'[i].lvl <= options.LogLevel)]_vars

\* C5: a call made while the active logLevel is 0 writes nothing to any sink,
\* whether it succeeds or fails.
C5_LevelZeroWritesNothing ==
    [][options.LogLevel = 0 => written' = <<>>]_vars

\* a successful LoadKeyPair made its info-level log call at logLevel 0 and
\* nothing was written
C5_Witness ==
    /\ last.op = "LoadKeyPair" /\ last.result = "ok"
    /\ options.LogLevel = 0
    /\ logged # <<>>
    /\ written = <<>>

\* a Config call whose record has port 0
PortZeroConfig == last.op = "Config" /\ last.args[1].Port = 0

\* C6 as stated: Config of a record with port 0 makes the active port 9000 and
\* writes exactly one info-level line when logLevel is 2 or 3 (here: when both
\* the level active before the call and the level of the record are 2 or 3).
C6_OneLineAtLevel2Or3 ==
    [][PortZeroConfig'
         => /\ options'.Port = 9000
            /\ (options.LogLevel \in {2, 3} /\ options'.LogLevel \in {2, 3})
                  => (Len(written') = 1 /\ written'[1].lvl = 2)]_vars

\* C6 amended: Config of a record with port 0 makes the active port 9000 and
\* makes exactly two info-level log calls, both filtered by the configuration
\* active before the call and sent to the current sink: it writes both lines
\* or neither, and both when the level active before the call is 2.
C6_TwoLinesOrNone ==
    [][PortZeroConfig'
         => /\ options'.Port = 9000
            /\ Len(logged') = 2
            /\ \A i \in 1..2 : logged'[i].lvl = 2
            /\ \/ written' = <<>>
               \/ written' = [i \in 1..2 |-> [dst |-> logDestination,
                                              msg |-> logged'[i].msg,
                                              lvl |-> 2]]
            /\ options.LogLevel = 2 => Len(written') = 2]_vars

\* a port-0 Config wrote its two lines
C6_Witness ==
    /\ PortZeroConfig
    /\ options.Port = 9000
    /\ Len(written) = 2

\* C7: the active port is never 0.
C7_PortNonZero == options.Port # 0

\* Config was handed port 0 and the active port is the default
C7_Witness ==
    /\ PortZeroConfig
    /\ options.Port = DefaultPort

\* Options.LogDestination of a record, os.Stdout when the field is left nil
SinkOf(o) == IF o.LogDestination = NilWriter THEN "stdout" ELSE o.LogDestination

\* C8: once Config(o) has returned, the lines the next operation writes go to
\* o's LogDestination and are written only if o's LogLevel is non-zero; the
\* lines Config itself writes go to the sink, and pass the level, that were
\* active before the call.
C8_LaterLinesUseNewConfig ==
    [][/\ (last.op = "Config" /\ last'.op \notin {"Config", "SetMessagesDst"})
            => /\ \A i \in DOMAIN written' : written'[i].dst = SinkOf(last.args[1])
               /\ written' # <<>> => last.args[1].LogLevel # 0
       /\ last'.op = "Config"
            => /\ \A i \in DOMAIN written' : written'[i].dst = logDestination
               /\ written' # <<>> => options.LogLevel # 0]_vars

\* C9: SetMessagesDst(d) makes d the sink and changes nothing else, whatever
\* the lifecycle state; every line a call writes goes to the sink that was
\* current when the call began, so from the next line on to d.
C9_SetMessagesDstOnlySink ==
    [][/\ last'.op = "SetMessagesDst"
            => /\ logDestination' = last'.args[1]
               /\ UNCHANGED <<options, certs, pools, listener, sockets>>
       /\ \A i \in DOMAIN written' : written'[i].dst = logDestination]_vars

\* the sink was redirected to w1 and an Accept on the listening server wrote
\* its line there
C9_Witness ==
    /\ last.op = "Accept"
    /\ listener # 0
    /\ logDestination = "w1"
    /\ written # <<>>
    /\ written[1].dst = "w1"

\* C10: right after a successful LoadKeyPair the credential is non-empty and
\* the pool holds exactly one entry, the certificate in the first PEM block of
\* that call's input, whatever the pool held before.
C10_LoadKeyPairResetsPool ==
    (last.op = "LoadKeyPair" /\ last.result = "ok")
        => /\ Len(certs.Cert.Certificate) > 0
           /\ certs.pool.IsSet
           /\ certs.pool.Pool \in DOMAIN pools
           /\ pools[certs.pool.Pool] = {pemDecode(last.args[1]).Bytes}

\* a second successful LoadKeyPair: a listener started before it still holds
\* the earlier pool with the extra CA, the server's new pool has one entry
C10_Witness ==
    /\ last.op = "LoadKeyPair" /\ last.result = "ok"
    /\ \E i \in DOMAIN sockets :
          /\ sockets[i].ClientCAs # certs.pool.Pool
          /\ Cardinality(pools[sockets[i].ClientCAs]) = 2
    /\ Cardinality(pools[certs.pool.Pool]) = 1

\* C11 as stated, for N = 1: the first successful AddClientCACert after a
\* successful LoadKeyPair leaves exactly two entries in the pool.
C11_OneAddGivesTwoEntries ==
    [][(/\ last.op = "LoadKeyPair" /\ last.result = "ok"
        /\ last'.op = "AddClientCACert" /\ last'.result = "ok")
         => Cardinality(pools'[certs'.pool.Pool]) = 2]_vars

\* C11 amended: a successful AddClientCACert keeps the server's pool object
\* and every entry of it, and adds the certificate of its input and nothing
\* else; when that certificate was not yet in the pool the pool has one entry
\* more.  So after a successful LoadKeyPair, N distinct CA certificates that
\* differ from the certificate LoadKeyPair added give N+1 entries, the union
\* of what was added, in whatever order.
C11_AddExtendsPool ==
    [][(last'.op = "AddClientCACert" /\ last'.result = "ok")
         => LET p == certs.pool.Pool
                c == pemDecode(last'.args[1]).Bytes
            IN  /\ certs' = certs
                /\ p \in DOMAIN pools
                /\ pools'[p] = pools[p] \cup {c}
                /\ c \notin pools[p] => Cardinality(pools'[p]) = Cardinality(pools[p]) + 1]_vars

\* two CA certificates were added after a successful LoadKeyPair: three entries
C11_Witness ==
    /\ last.op = "AddClientCACert" /\ last.result = "ok"
    /\ certs.pool.IsSet
    /\ Cardinality(pools[certs.pool.Pool]) = 3

\* C12: while no LoadKeyPair call has returned success (certs.pool.IsSet is
\* still false) the pool is nil or has no entry.
C12_PoolEmptyUntilLoaded ==
    ~certs.pool.IsSet
        => (certs.pool.Pool = NilPool \/ pools[certs.pool.Pool] = {})

\* C13: whenever the server holds a listener, a credential with a non-empty
\* certificate chain is stored; and the stored listener changes only in a
\* Start call that succeeds and that found the credential present.
C13_ListeningHasCredential ==
    /\ [](listener # 0 => Len(certs.Cert.Certificate) > 0)
    /\ [][listener' # listener
            => /\ last'.op = "Start" /\ last'.result = "ok"
               /\ Len(certs.Cert.Certificate) > 0]_vars

\* a Start call has just stored a listener
C13_Witness ==
    /\ last.op = "Start" /\ last.result = "ok"
    /\ listener # 0
    /\ Len(certs.Cert.Certificate) > 0

\* C14: the active configuration is the default one (127.0.0.1, 9000,
\* require-any-client-cert) until Config is called, then the record of the most
\* recent Config with port 0 replaced by 9000; a successful Start binds one
\* new listener, on the host and port and with the client-auth policy of the
\* configuration active when it was called.
C14_StartBindsActiveConfig ==
    /\ options.Host = "127.0.0.1" /\ options.Port = 9000
    /\ options.TLSAuthType = "RequireAnyClientCert"
    /\ [][/\ last'.op = "Config"
               => options' = [last'.args[1] EXCEPT !.Port = IF @ = 0 THEN 9000 ELSE @]
          /\ last'.op # "Config" => options' = options
          /\ (last'.op = "Start" /\ last'.result = "ok")
               => /\ Len(sockets') = Len(sockets) + 1
                  /\ SubSeq(sockets', 1, Len(sockets)) = sockets
                  /\ listener' = Len(sockets')
                  /\ sockets'[listener'].service = <<options.Host, options.Port>>
                  /\ sockets'[listener'].ClientAuth = options.TLSAuthType]_vars

\* Start bound a service and a policy that only a Config call can have set
C14_Witness ==
    /\ last.op = "Start" /\ last.result = "ok"
    /\ sockets[listener].service = <<"10.0.0.1", 8443>>
    /\ sockets[listener].ClientAuth = "NoClientCert"

\* C15: an Accept call on a listening server calls h.listener.Accept() exactly
\* once: when that call fails Accept returns AcceptError and no connection,
\* when it succeeds Accept returns the connection it gave and no error.  A
\* Start call calls tls.Listen at most once, and returns ListenError exactly
\* when that one call fails.
C15_OneAttemptPerCall ==
    /\ []((last.op = "Accept" /\ last.result # "panic")
            => /\ Len(tried) = 1
               /\ tried[1].fn = "Accept"
               /\ tried[1].err <=> last.result = "AcceptError"
               /\ ~tried[1].err <=> last.result = "ok")
    /\ [](last.op = "Start"
            => /\ Len(tried) <= 1
               /\ \A i \in DOMAIN tried : tried[i].fn = "Listen"
               /\ last.result = "ListenError" <=> (tried # <<>> /\ tried[1].err)
               /\ last.result = "ok" <=> (tried # <<>> /\ ~tried[1].err))
    /\ [][\A g \in Goroutines :
            /\ (calls[g].pc = "failed" /\ calls'[g] # calls[g])
                 => /\ calls'[g] = Idle
                    /\ last'.result = "AcceptError"
                    /\ returned' = returned
            /\ (calls[g].pc = "accepted" /\ calls'[g] # calls[g])
                 => /\ calls'[g] = Idle
                    /\ last'.result = "ok"
                    /\ returned' = [returned EXCEPT ![g] = Append(@, calls[g].conn)]]_vars

\* an Accept call returned AcceptError although a connection was waiting
C15_Witness ==
    /\ last.op = "Accept" /\ last.result = "AcceptError"
    /\ listener # 0
    /\ Waiting # {}
    /\ Len(tried) = 1

\* C16: no listener is ever closed; a Start that succeeds binds one more
\* listener and stores it in place of the one stored before, which stays
\* open; a Start that returns ListenError leaves the stored listener alone;
\* the stored listener is always the one bound last, and it is the one every
\* Accept call is made on.
C16_SecondStartLeaksFirst ==
    /\ [](listener = Len(sockets))
    /\ [][/\ Len(sockets') >= Len(sockets)
          /\ SubSeq(sockets', 1, Len(sockets)) = sockets
          /\ (last'.op = "Start" /\ last'.result = "ok")
               => /\ Len(sockets') = Len(sockets) + 1
                  /\ listener' = Len(sockets')
          /\ (last'.op = "Start" /\ last'.result = "ListenError")
               => /\ listener' = listener
                  /\ sockets' = sockets
          /\ (last'.op = "Accept" /\ last'.result # "panic")
               => /\ tried'[1].listener = listener
                  /\ listener' = listener]_vars

\* two listeners are open, the first is no longer stored, and an Accept call
\* was served by the second
C16_Witness ==
    /\ Len(sockets) = 2
    /\ listener = 2
    /\ last.op = "Accept" /\ last.result = "ok"
    /\ tried[1].listener = 2

\* every return of a connection by an Accept call: the goroutine and the
\* position in what it was given
Deliveries == {d \in Goroutines \X (1..MaxConns) : d[2] \in DOMAIN returned[d[1]]}

\* C17: with Accept calls of several goroutines in progress at once, no
\* connection is returned twice (neither to two callers nor twice to one), a
\* returned connection is neither still waiting nor held by a call in
\* progress, and two calls in progress never hold the same connection; each
\* call takes its connection out of the stored listener's queue; and nothing
\* an Accept call does changes the configuration, the credential, the pools,
\* the stored listener, the open sockets or the sink.
C17_EachConnectionReturnedOnce ==
    /\ [](/\ \A a \in Deliveries, b \in Deliveries :
               a # b => returned[a[1]][a[2]] # returned[b[1]][b[2]]
          /\ \A a \in Deliveries :
               /\ returned[a[1]][a[2]] \notin {c.id : c \in inbound}
               /\ \A g \in Goroutines : calls[g].conn # returned[a[1]][a[2]]
          /\ \A g \in Goroutines, h \in Goroutines :
               (g # h /\ calls[g].pc = "accepted") => calls[g].conn # calls[h].conn)
    /\ [][/\ (calls' # calls \/ returned' # returned)
               => UNCHANGED <<options, certs, pools, listener, sockets, logDestination>>
          /\ \A g \in Goroutines :
               (calls[g] = Idle /\ calls'[g].pc = "accepted")
                  => \E c \in inbound :
                        /\ c.sock = listener
                        /\ c.id = calls'[g].conn
                        /\ inbound' = inbound \ {c}]_vars

\* two Accept calls are in progress at once, each holding a connection, and
\* an earlier call has already returned one
C17_Witness ==
    /\ calls["g1"].pc = "accepted"
    /\ calls["g2"].pc = "accepted"
    /\ returned["g1"] # <<>>

\* C18: a listener uses the pool object and the credential that were the
\* server's when its Start succeeded.  A successful AddClientCACert adds its
\* certificate to the pool of every open listener that shares the server's
\* current pool and leaves the other listeners' pools alone; a LoadKeyPair
\* call touches no open listener and no pool of one, and gives the server a
\* pool object that no open listener uses.
C18_ListenerSharesPool ==
    [][/\ (last'.op = "Start" /\ last'.result = "ok")
            => /\ certs.pool.Pool # NilPool
               /\ sockets'[listener'].ClientCAs = certs.pool.Pool
               /\ sockets'[listener'].Certificates = certs.Cert
       /\ (last'.op = "AddClientCACert" /\ last'.result = "ok")
            => /\ sockets' = sockets
               /\ \A i \in DOMAIN sockets :
                     IF sockets[i].ClientCAs = certs.pool.Pool
                     THEN pemDecode(last'.args[1]).Bytes \in pools'[sockets[i].ClientCAs]
                     ELSE pools'[sockets[i].ClientCAs] = pools[sockets[i].ClientCAs]
       /\ last'.op = "LoadKeyPair"
            => /\ sockets' = sockets
               /\ \A i \in DOMAIN sockets :
                     /\ pools'[sockets[i].ClientCAs] = pools[sockets[i].ClientCAs]
                     /\ certs'.pool.Pool # sockets[i].ClientCAs]_vars

\* the first listener still runs on the pool of its Start, which has since got
\* a further CA; the second was started after another LoadKeyPair and runs on
\* the new pool and the new credential
C18_Witness ==
    /\ Len(sockets) = 2
    /\ sockets[1].ClientCAs # sockets[2].ClientCAs
    /\ sockets[2].ClientCAs = certs.pool.Pool
    /\ sockets[1].Certificates.Certificate = <<"c1">>
    /\ sockets[2].Certificates.Certificate = <<"c2">>
    /\ pools[sockets[1].ClientCAs] = {"c1", "c2"}
    /\ pools[sockets[2].ClientCAs] = {"c2"}

\* C19: a stored certificate chain is never cleared.  A step from a state with
\* a non-empty credential leads to a state with a non-empty credential and is
\* no Start call returning NoCredentialsError; and in every state where the
\* pool's IsSet flag is true the credential is non-empty and the pool pointer
\* refers to a pool object.
C19_CredentialNeverCleared ==
    /\ [](certs.pool.IsSet => /\ Len(certs.Cert.Certificate) > 0
                              /\ certs.pool.Pool # NilPool
                              /\ certs.pool.Pool \in DOMAIN pools)
    /\ [][Len(certs.Cert.Certificate) > 0
             => /\ Len(certs'.Cert.Certificate) > 0
                /\ ~(last'.op = "Start" /\ last'.result = "NoCredentialsError")]_vars

\* Start has bound a listener after a LoadKeyPair call that failed on a server
\* whose earlier LoadKeyPair had succeeded: the flag is set, the pool is the
\* empty one of the failed call
C19_Witness ==
    /\ last.op = "Start"
    /\ last.result = "ok"
    /\ certs.pool.IsSet
    /\ pools[certs.pool.Pool] = {}
    /\ Len(certs.Cert.Certificate) > 0

====
